---- MODULE Spec2Model ----
(***************************************************************************)
(* A model of air's routing layer (src/src/air/routing.py): the AirRouter  *)
(* constructor, the page decorator, the five method decorators, the .url   *)
(* accessor attached to decorated handlers, and the dispatch of a request  *)
(* by a router that is served as an ASGI application.                      *)
(*                                                                         *)
(* Python strings are sequences of one-character strings, so that          *)
(* str.replace, concatenation, path parameters and path matching are       *)
(* computed character by character.  Tags that the program never takes     *)
(* apart (HTTP methods, response classes, handler ids) are TLA+ strings.   *)
(*                                                                         *)
(* AirRouter inherits from fastapi.routing.APIRouter (routing.py:15,123).  *)
(* The inherited operations the decorators and the accessor call           *)
(* (add_api_route, url_path_for, the router's ASGI app) are modelled after *)
(* FastAPI/Starlette; compute_page_path, create_route_decorator and        *)
(* default_404_router_handler are imported by routing.py:23-28 from        *)
(* modules of the package and are modelled after the specification.        *)
(***************************************************************************)
EXTENDS Integers, Sequences, FiniteSets, TLC

VARIABLES
    constructed,       \* AirRouter.__init__ returned (no assertion failed)
    prefix,            \* self.prefix
    path_separator,    \* self.path_separator
    default,           \* self.default: the ASGI app answering unmatched requests
    redirect_slashes,  \* self.redirect_slashes
    routes,            \* self.routes: the registered routes, in registration order
    funcs,             \* the application's handler functions: name, return value, .url
    last               \* the last call made on the router or on a handler, and its outcome

vars == <<constructed, prefix, path_separator, default, redirect_slashes, routes, funcs, last>>

(***************************************************************************)
(* Bounds of the model.                                                    *)
(***************************************************************************)
MaxRoutes == 2
MaxNameLen == 5

(***************************************************************************)
(* Python string operations.                                               *)
(***************************************************************************)
RECURSIVE ReplaceStr(_, _, _)
\* str.replace(old, new) for a non-empty old: every non-overlapping occurrence,
\* scanning from the left.
ReplaceStr(s, old, new) ==
    IF Len(s) < Len(old) THEN s
    ELSE IF SubSeq(s, 1, Len(old)) = old
         THEN new \o ReplaceStr(SubSeq(s, Len(old) + 1, Len(s)), old, new)
         ELSE <<s[1]>> \o ReplaceStr(Tail(s), old, new)

\* old in s
Contains(s, old) ==
    \E i \in 1..(Len(s) - Len(old) + 1) : SubSeq(s, i, i + Len(old) - 1) = old

StartsWith(s, p) == Len(s) >= Len(p) /\ SubSeq(s, 1, Len(p)) = p

EndsWith(s, p) == Len(s) >= Len(p) /\ SubSeq(s, Len(s) - Len(p) + 1, Len(s)) = p

Digits == <<"0", "1", "2", "3", "4", "5", "6", "7", "8", "9">>

RECURSIVE IntToStr(_)
\* str(n) of a non-negative int
IntToStr(n) ==
    IF n < 10 THEN <<Digits[n + 1]>>
    ELSE IntToStr(n \div 10) \o <<Digits[(n % 10) + 1]>>

STR_index == <<"i", "n", "d", "e", "x">>
STR_router == <<"r", "o", "u", "t", "e", "r">>
STR_about_us == <<"a", "b", "o", "u", "t", "_", "u", "s">>
STR_item == <<"i", "t", "e", "m">>
STR_id == <<"i", "d">>
STR_q == <<"q">>
STR_api == <<"/", "a", "p", "i">>
STR_items == <<"/", "i", "t", "e", "m", "s">>
STR_items_id == <<"/", "i", "t", "e", "m", "s", "/", "{", "i", "d", "}">>
STR_users_id == <<"/", "u", "s", "e", "r", "s", "/", "{", "i", "d", "}">>

(***************************************************************************)
(* The Path Namer.                                                         *)
(***************************************************************************)
compute_page_path(endpoint_name, separator) ==
    IF endpoint_name = STR_index THEN <<"/">>
    ELSE <<"/">> \o ReplaceStr(endpoint_name, <<"_">>, <<separator>>)

(***************************************************************************)
(* Path parameters (Starlette's compile_path, replace_params and           *)
(* Route.url_path_for, reached through the inherited url_path_for).        *)
(***************************************************************************)
IdentStart ==
    {"a", "b", "c", "d", "e", "f", "g", "h", "i", "j", "k", "l", "m", "n", "o", "p", "q",
     "r", "s", "t", "u", "v", "w", "x", "y", "z", "A", "B", "C", "D", "E", "F", "G", "H",
     "I", "J", "K", "L", "M", "N", "O", "P", "Q", "R", "S", "T", "U", "V", "W", "X", "Y",
     "Z", "_"}

IdentChar == IdentStart \cup {"0", "1", "2", "3", "4", "5", "6", "7", "8", "9"}

\* The keys of param_convertors: every NAME of a "{NAME}" placeholder of the path.
ParamNames(path) ==
    LET opens == { i \in 1..Len(path) : path[i] = "{" }
        closes == { j \in 1..Len(path) : path[j] = "}" }
    IN  { SubSeq(path, ij[1] + 1, ij[2] - 1) :
            ij \in { xy \in opens \X closes :
                        /\ xy[2] > xy[1] + 1
                        /\ path[xy[1] + 1] \in IdentStart
                        /\ \A k \in (xy[1] + 2)..(xy[2] - 1) : path[k] \in IdentChar } }

\* StringConvertor.to_string: str(value)
to_string(value) == IntToStr(value)

RECURSIVE replace_params(_, _)
\* Each supplied key whose placeholder occurs in the path is substituted and
\* dropped from the remaining parameters.
replace_params(path, path_params) ==
    IF DOMAIN path_params = {} THEN [path |-> path, remaining |-> {}]
    ELSE LET key == CHOOSE k \in DOMAIN path_params : TRUE
             rest == [k \in DOMAIN path_params \ {key} |-> path_params[k]]
             holder == <<"{">> \o key \o <<"}">>
         IN  IF Contains(path, holder)
             THEN replace_params(ReplaceStr(path, holder, to_string(path_params[key])), rest)
             ELSE LET r == replace_params(path, rest)
                  IN  [path |-> r.path, remaining |-> r.remaining \cup {key}]

NoMatchFound == [ok |-> FALSE, url |-> <<>>]

\* Route.url_path_for
route_url_path_for(route, name, path_params) ==
    IF name # route.name \/ DOMAIN path_params # route.param_names
    THEN NoMatchFound
    ELSE [ok |-> TRUE, url |-> replace_params(route.path, path_params).path]

\* Router.url_path_for: the first route, in registration order, that does not
\* raise NoMatchFound.
url_path_for(rs, name, path_params) ==
    LET hits == { i \in 1..Len(rs) : route_url_path_for(rs[i], name, path_params).ok }
    IN  IF hits = {} THEN NoMatchFound
        ELSE route_url_path_for(rs[CHOOSE i \in hits : \A j \in hits : i <= j],
                                name, path_params)

(***************************************************************************)
(* RouterMixin._url_helper                                                 *)
(***************************************************************************)
\* helper_function with the parameters not passed on.
helper_function_drops_params(name, params) == url_path_for(routes, name, <<>>)

\* helper_function with NoMatchFound caught.
helper_function_swallows_no_match(name, params) ==
    LET r == url_path_for(routes, name, params)
    IN  IF r.ok THEN r ELSE [ok |-> TRUE, url |-> <<>>]

\* helper_function(**params): self.url_path_for(name, **params)
helper_function(name, params) == url_path_for(routes, name, params)

\* _url_helper(name) returns the closure over name; the closure is its name.
_url_helper(name) == name

(***************************************************************************)
(* AirRouter.__init__                                                      *)
(***************************************************************************)
\* The framework's own default response class, in place of AirResponse.
default_response_class_json == "JSONResponse"

\* default_response_class: ... = AirResponse
default_response_class == "AirResponse"

\* path_separator: ... = "-"
path_separator_param(arg) == IF arg = "unset" THEN "-" ELSE arg

\* default_404_router_handler(router_name): an ASGI app answering 404 with a
\* body that names router_name.
default_404_router_handler(router_name) == [kind |-> "air404", label |-> router_name]

NoDefault == [kind |-> "none", label |-> <<>>]
CustomDefault == [kind |-> "custom", label |-> <<>>]

\* The label with the prefix forgotten.
router_label_always_router(prefix_arg) == STR_router

\* prefix or "router"
router_label(prefix_arg) == IF prefix_arg # <<>> THEN prefix_arg ELSE STR_router

\* if default is None: default = default_404_router_handler(prefix or "router")
default_param(prefix_arg, default_arg) ==
    IF default_arg = NoDefault
    THEN default_404_router_handler(router_label(prefix_arg))
    ELSE default_arg

\* The assertions on a non-empty prefix (made by APIRouter.__init__ and again
\* after it).
prefix_ok(prefix_arg) ==
    prefix_arg # <<>> => (StartsWith(prefix_arg, <<"/">>) /\ ~EndsWith(prefix_arg, <<"/">>))

AirRouter_init(prefix_arg, default_arg, redirect_arg, separator_arg) ==
    /\ path_separator = path_separator_param(separator_arg)
    /\ default = default_param(prefix_arg, default_arg)
    /\ prefix = prefix_arg
    /\ redirect_slashes = redirect_arg
    /\ routes = <<>>
    /\ constructed = prefix_ok(prefix_arg)

(***************************************************************************)
(* Route registration.                                                     *)
(***************************************************************************)
NoKw == [response_class |-> "Default", status_code |-> 0]

\* APIRouter.add_api_route: the route is appended to self.routes; its path is
\* self.prefix + path, compiled once for its parameter names; its name is the
\* endpoint's __name__, its response class the one given or else the router's
\* default.  No existing route is looked at.
add_api_route(method, path, kw, func) ==
    Append(routes,
           [path |-> prefix \o path,
            param_names |-> ParamNames(prefix \o path),
            method |-> method,
            name |-> funcs[func].name,
            endpoint |-> func,
            response_class |-> IF kw.response_class = "Default"
                               THEN default_response_class
                               ELSE kw.response_class,
            status_code |-> kw.status_code])

\* The decorator create_route_decorator(method) makes, applied to func:
\* registers the route, attaches .url bound to the route's name, returns func.
create_route_decorator(method, path, kw, func) ==
    /\ constructed
    /\ Len(routes) < MaxRoutes
    /\ routes' = add_api_route(method, path, kw, func)
    /\ funcs' = [funcs EXCEPT ![func].url = _url_helper(funcs[func].name)]
    /\ UNCHANGED <<constructed, prefix, path_separator, default, redirect_slashes>>

\* The state a call found: the routes and the handler functions before it.
Before == [routes |-> routes, funcs |-> funcs]

\* The record of a decorator applied to func: the call, what it returned and
\* whether it raised.
Called(op, path, kw, func, ret) ==
    [op |-> op, path |-> path, kw |-> kw, func |-> func, ret |-> ret, raised |-> FALSE,
     before |-> Before]

(***************************************************************************)
(* RouterMixin.page                                                        *)
(***************************************************************************)
\* page with the separator of the class, not of the router.
page_default_separator(func) ==
    LET page_path == compute_page_path(funcs[func].name, "-")
    IN  /\ create_route_decorator("GET", page_path, NoKw, func)
        /\ last' = Called("page", page_path, NoKw, func, func)

\* page without the "index" case.
page_without_index(func) ==
    LET page_path == <<"/">> \o ReplaceStr(funcs[func].name, <<"_">>, <<path_separator>>)
    IN  /\ create_route_decorator("GET", page_path, NoKw, func)
        /\ last' = Called("page", page_path, NoKw, func, func)

\* page without its return statement.
page_returns_nothing(func) ==
    LET page_path == compute_page_path(funcs[func].name, path_separator)
    IN  /\ create_route_decorator("GET", page_path, NoKw, func)
        /\ last' = Called("page", page_path, NoKw, func, "None")

page(func) ==
    LET page_path == compute_page_path(funcs[func].name, path_separator)
    IN  /\ create_route_decorator("GET", page_path, NoKw, func)
        /\ last' = Called("page", page_path, NoKw, func, func)

(***************************************************************************)
(* AirRouter.get / post / patch / put / delete                             *)
(***************************************************************************)
get(path, kw, func) ==
    /\ create_route_decorator("GET", path, kw, func)
    /\ last' = Called("get", path, kw, func, func)

\* post made by create_route_decorator("get").
post_registers_get(path, kw, func) ==
    /\ create_route_decorator("GET", path, kw, func)
    /\ last' = Called("post", path, kw, func, func)

post(path, kw, func) ==
    /\ create_route_decorator("POST", path, kw, func)
    /\ last' = Called("post", path, kw, func, func)

patch(path, kw, func) ==
    /\ create_route_decorator("PATCH", path, kw, func)
    /\ last' = Called("patch", path, kw, func, func)

put(path, kw, func) ==
    /\ create_route_decorator("PUT", path, kw, func)
    /\ last' = Called("put", path, kw, func, func)

delete(path, kw, func) ==
    /\ create_route_decorator("DELETE", path, kw, func)
    /\ last' = Called("delete", path, kw, func, func)

(***************************************************************************)
(* RouteCallable.url                                                       *)
(***************************************************************************)
\* func.url(**path_params) on a decorated handler
url(func, path_params) ==
    /\ constructed
    /\ funcs[func].url # <<>>
    /\ last' = [op |-> "url", func |-> func, path_params |-> path_params,
                result |-> helper_function(funcs[func].url, path_params),
                before |-> Before]
    /\ UNCHANGED <<constructed, prefix, path_separator, default, redirect_slashes,
                   routes, funcs>>

(***************************************************************************)
(* A request served by the router (Starlette's Route.matches, Route.handle *)
(* and Router.app, FastAPI's request handler).                             *)
(***************************************************************************)
\* The index of the "}" that closes a "{NAME}" placeholder at the head of pat,
\* or 0 when pat does not start with one.
PlaceholderEnd(pat) ==
    IF pat[1] # "{" THEN 0
    ELSE LET ends == { j \in 3..Len(pat) :
                         /\ pat[j] = "}"
                         /\ pat[2] \in IdentStart
                         /\ \A k \in 3..(j - 1) : pat[k] \in IdentChar }
         IN  IF ends = {} THEN 0 ELSE CHOOSE j \in ends : \A k \in ends : j <= k

RECURSIVE path_regex_match(_, _)
\* path_regex.match(route_path): literal characters match themselves and a
\* placeholder matches [^/]+ , up to the end of the path.
path_regex_match(pat, s) ==
    IF pat = <<>> THEN s = <<>>
    ELSE LET close == PlaceholderEnd(pat)
         IN  IF close > 0
             THEN \E k \in 1..Len(s) :
                     /\ \A i \in 1..k : s[i] # "/"
                     /\ path_regex_match(SubSeq(pat, close + 1, Len(pat)),
                                         SubSeq(s, k + 1, Len(s)))
             ELSE s # <<>> /\ s[1] = pat[1] /\ path_regex_match(Tail(pat), Tail(s))

\* Route.matches: NONE, PARTIAL (the path matches, the method does not) or FULL
matches(route, method, path) ==
    IF ~path_regex_match(route.path, path) THEN "NONE"
    ELSE IF method # route.method THEN "PARTIAL"
    ELSE "FULL"

\* The media type each response class renders with.
media_type(response_class) ==
    IF response_class = "AirResponse" THEN "text/html; charset=utf-8"
    ELSE "application/json"

NoResponse ==
    [status |-> 0, by |-> "none", endpoint |-> "None", content |-> "", media_type |-> "",
     label |-> <<>>, location |-> <<>>]

\* The request handler of a route: a Response the endpoint returns is sent as
\* it is; any other return value is rendered by the route's response class,
\* with the route's status code when one was given.
run_endpoint(route) ==
    LET raw == funcs[route.endpoint].returns
    IN  IF raw.is_response
        THEN [NoResponse EXCEPT !.status = 200, !.by = "route", !.endpoint = route.endpoint,
                                !.content = raw.value,
                                !.media_type = media_type(raw.response_class)]
        ELSE [NoResponse EXCEPT !.status = IF route.status_code # 0
                                           THEN route.status_code ELSE 200,
                                !.by = "route", !.endpoint = route.endpoint,
                                !.content = raw.value,
                                !.media_type = media_type(route.response_class)]

\* The path with its trailing slash removed, or added when it has none.
toggle_slash(path) ==
    IF EndsWith(path, <<"/">>)
    THEN LET keep == { n \in 0..Len(path) : \A i \in (n + 1)..Len(path) : path[i] = "/" }
         IN  SubSeq(path, 1, CHOOSE n \in keep : \A m \in keep : n <= m)
    ELSE path \o <<"/">>

\* self.default(scope, receive, send)
call_default(app) ==
    IF app.kind = "air404"
    THEN [NoResponse EXCEPT !.status = 404, !.by = "air404", !.label = app.label]
    ELSE [NoResponse EXCEPT !.status = 200, !.by = "custom"]

\* Router.app: the first full match handles the request; else the first partial
\* match answers 405; else, with redirect_slashes, a route matching the path
\* with its trailing slash toggled gives a redirect; else self.default.
router_app(method, path) ==
    LET match == [i \in 1..Len(routes) |-> matches(routes[i], method, path)]
        full == { i \in 1..Len(routes) : match[i] = "FULL" }
        partial == { i \in 1..Len(routes) : match[i] = "PARTIAL" }
        first(S) == CHOOSE i \in S : \A j \in S : i <= j
    IN  IF full # {}
        THEN run_endpoint(routes[first(full)])
        ELSE IF partial # {}
        THEN [NoResponse EXCEPT !.status = 405, !.by = "partial",
                                !.endpoint = routes[first(partial)].endpoint]
        ELSE IF /\ redirect_slashes
                /\ path # <<"/">>
                /\ \E i \in 1..Len(routes) :
                      matches(routes[i], method, toggle_slash(path)) # "NONE"
        THEN [NoResponse EXCEPT !.status = 307, !.by = "redirect",
                                !.location = toggle_slash(path)]
        ELSE call_default(default)

\* An HTTP request to the router
request(method, path) ==
    /\ constructed
    /\ last' = [op |-> "request", method |-> method, path |-> path,
                response |-> router_app(method, path), before |-> Before]
    /\ UNCHANGED <<constructed, prefix, path_separator, default, redirect_slashes,
                   routes, funcs>>

(***************************************************************************)
(* The application: its handler functions and the calls it makes.          *)
(***************************************************************************)
Handler(name, returns) == [name |-> name, returns |-> returns, url |-> <<>>]

Text(value) == [is_response |-> FALSE, value |-> value, response_class |-> ""]

Json(value) == [is_response |-> TRUE, value |-> value, response_class |-> "JSONResponse"]

\* AirRouter(prefix=..., default=..., redirect_slashes=..., path_separator=...)
Constructed(prefix_arg, default_arg, redirect_arg, separator_arg) ==
    /\ AirRouter_init(prefix_arg, default_arg, redirect_arg, separator_arg)
    /\ last = [op |-> "init", prefix_arg |-> prefix_arg, default_arg |-> default_arg,
               separator_arg |-> separator_arg]

Prefixes == {<<>>, STR_api, STR_api \o <<"/">>}
SeparatorArgs == {"unset", "-", "/"}

\* def about_us(): return "<h1>Hello</h1>"
\* def item(): return JSONResponse({"status": "created"})
\* (in another module) def item(): return "<h1>Item</h1>"
AboutUs == Handler(STR_about_us, Text("<h1>Hello</h1>"))
Item == Handler(STR_item, Json("{status: created}"))
OtherItem == Handler(STR_item, Text("<h1>Item</h1>"))

STR_items_5 == STR_items \o <<"/", "5">>
STR_nope == <<"/", "n", "o", "p", "e">>

GetPost(paths, kws) ==
    \/ \E path \in paths, kw \in kws, f \in DOMAIN funcs : get(path, kw, f)
    \/ \E path \in paths, kw \in kws, f \in DOMAIN funcs : post(path, kw, f)

PatchPutDelete(paths, kws) ==
    \/ \E path \in paths, kw \in kws, f \in DOMAIN funcs : patch(path, kw, f)
    \/ \E path \in paths, kw \in kws, f \in DOMAIN funcs : put(path, kw, f)
    \/ \E path \in paths, kw \in kws, f \in DOMAIN funcs : delete(path, kw, f)

Pages == \E f \in DOMAIN funcs : page(f)

Urls(params) == \E f \in DOMAIN funcs, ps \in params : url(f, ps)

Requests(methods, paths) == \E m \in methods, path \in paths : request(m, path)

(***************************************************************************)
(* Spec: every operation of the router, on one parameterised path.         *)
(***************************************************************************)
Init ==
    /\ \E p \in Prefixes : Constructed(p, NoDefault, TRUE, "unset")
    /\ funcs = [about_us |-> AboutUs, item |-> Item]

Next ==
    \/ Pages
    \/ GetPost({STR_items_id}, {NoKw})
    \/ PatchPutDelete({STR_items_id}, {NoKw})
    \/ Urls({<<>>, (STR_id :> 5)})
    \/ Requests({"GET", "POST"}, {STR_items_5})

Spec == Init /\ [][Next]_vars

(***************************************************************************)
(* SpecNamer: page applied to a function of any name over NameAlphabet (or *)
(* named about_us), on a router of any separator.                          *)
(***************************************************************************)
NameAlphabet == {"i", "n", "d", "e", "x", "_", "I"}
Identifiers == UNION { [1..n -> NameAlphabet] : n \in 1..MaxNameLen } \cup {STR_about_us}

InitNamer ==
    /\ \E p \in {<<>>, STR_api}, sep \in SeparatorArgs : Constructed(p, NoDefault, TRUE, sep)
    /\ \E n \in Identifiers : funcs = [f |-> Handler(n, Text(""))]

NextNamer == Pages

SpecNamer == InitNamer /\ [][NextNamer]_vars

(***************************************************************************)
(* SpecUrl: reverse URLs.  Handlers registered by page, get and post on    *)
(* paths of equal and of different parameter names; two of the handlers    *)
(* are different functions with the same __name__.                         *)
(***************************************************************************)
UrlPaths == {STR_items_id, STR_users_id, STR_items}
PathParams ==
    { <<>>, (STR_id :> 5), (STR_id :> 42), (STR_id :> 5) @@ (STR_q :> 5) }

InitUrl ==
    /\ \E p \in {<<>>, STR_api} : Constructed(p, NoDefault, TRUE, "unset")
    /\ funcs = [about_us |-> AboutUs, item |-> Item, item_b |-> OtherItem]

NextUrl == Pages \/ GetPost(UrlPaths, {NoKw}) \/ Urls(PathParams)

SpecUrl == InitUrl /\ [][NextUrl]_vars

(***************************************************************************)
(* SpecServe: requests to handlers registered with a response class or a   *)
(* status code.  SpecNotFound: requests to a router of any default handler *)
(* and redirect_slashes.                                                   *)
(***************************************************************************)
Kws ==
    [response_class : {"Default", "JSONResponse"}, status_code : {0, 201}]

InitServe ==
    /\ \E p \in {<<>>, STR_api} : Constructed(p, NoDefault, TRUE, "unset")
    /\ funcs = [about_us |-> AboutUs, item |-> Item]

NextServe ==
    \/ GetPost({STR_items_id}, Kws)
    \/ Requests({"GET", "POST"}, {STR_items_5, STR_api \o STR_items_5})

SpecServe == InitServe /\ [][NextServe]_vars

InitNotFound ==
    /\ \E p \in Prefixes, d \in {NoDefault, CustomDefault}, rs \in BOOLEAN :
          Constructed(p, d, rs, "unset")
    /\ funcs = [about_us |-> AboutUs, item |-> Item]

NextNotFound ==
    \/ GetPost({STR_items_id}, {NoKw})
    \/ PatchPutDelete({STR_items_id}, {NoKw})
    \/ Requests({"GET", "POST"},
                {STR_items_5, STR_items_5 \o <<"/">>, STR_api \o STR_items_5,
                 STR_api \o STR_items_5 \o <<"/">>, STR_nope})

SpecNotFound == InitNotFound /\ [][NextNotFound]_vars

(***************************************************************************)
(* The properties.  Each is a predicate on the state after a call: last    *)
(* holds the call, its outcome and the routes and handlers it found.       *)
(***************************************************************************)
RegistrationOps == {"page", "get", "post", "patch", "put", "delete"}

MethodOf(op) ==
    CASE op = "page" -> "GET"
      [] op = "get" -> "GET"
      [] op = "post" -> "POST"
      [] op = "patch" -> "PATCH"
      [] op = "put" -> "PUT"
      [] op = "delete" -> "DELETE"

NewRoute == routes[Len(routes)]

\* The path a route was declared with: its path without the router's prefix.
DeclaredPath(route) == SubSeq(route.path, Len(prefix) + 1, Len(route.path))

Decimal == (5 :> <<"5">>) @@ (42 :> <<"4", "2">>)

RECURSIVE Substituted(_, _)
\* path, read from the left, with every placeholder of a supplied parameter
\* written as the decimal digits of its value.
Substituted(path, params) ==
    IF path = <<>> THEN <<>>
    ELSE LET close == PlaceholderEnd(path)
         IN  IF close > 0 /\ SubSeq(path, 2, close - 1) \in DOMAIN params
             THEN Decimal[params[SubSeq(path, 2, close - 1)]]
                     \o Substituted(SubSeq(path, close + 1, Len(path)), params)
             ELSE <<path[1]>> \o Substituted(Tail(path), params)

PageName == funcs[last.func].name

\* C1: for every identifier other than "index" and either separator, the path
\* page computes is "/" followed by the name with each underscore replaced by
\* the separator and every other character, of either case, left as it is.
C1_PathNamerReplacesUnderscores ==
    (last.op = "page" /\ PageName # STR_index) =>
        /\ Len(last.path) = Len(PageName) + 1
        /\ last.path[1] = "/"
        /\ \A i \in 1..Len(PageName) :
              last.path[i + 1] = IF PageName[i] = "_" THEN path_separator ELSE PageName[i]

C1_Witness ==
    /\ last.op = "page"
    /\ PageName = <<"I", "_", "n", "_", "x">>
    /\ path_separator = "/"
    /\ last.path = <<"/", "I", "/", "n", "/", "x">>

\* C2: the identifier "index" is named "/" under either separator, and no
\* other identifier is.
C2_IndexIsRoot ==
    last.op = "page" => (last.path = <<"/">> <=> PageName = STR_index)

C2_Witness ==
    /\ last.op = "page"
    /\ PageName = STR_index
    /\ path_separator = "/"
    /\ last.path = <<"/">>

\* What page must have appended for the function it was applied to, given the
\* path the route is expected at.
PageAppended(path) ==
    /\ Len(routes) = Len(last.before.routes) + 1
    /\ SubSeq(routes, 1, Len(routes) - 1) = last.before.routes
    /\ NewRoute.method = "GET"
    /\ NewRoute.endpoint = last.func
    /\ NewRoute.path = path

SeparatorIsTheRoutersOwn ==
    last.op = "init" =>
        path_separator = IF last.separator_arg = "unset" THEN "-" ELSE last.separator_arg

STR_about_dash_us == <<"/", "a", "b", "o", "u", "t", "-", "u", "s">>
STR_about_slash_us == <<"/", "a", "b", "o", "u", "t", "/", "u", "s">>

\* C3 as stated: page registers exactly one GET route whose path is the Path
\* Namer result for the function's name under the router's own separator, "-"
\* when none was given: /about-us and /about/us for about_us.
C3_Original ==
    /\ SeparatorIsTheRoutersOwn
    /\ last.op = "page" =>
          /\ PageAppended(compute_page_path(PageName, path_separator))
          /\ (PageName = STR_about_us /\ path_separator = "-")
                => NewRoute.path = STR_about_dash_us
          /\ (PageName = STR_about_us /\ path_separator = "/")
                => NewRoute.path = STR_about_slash_us

\* C3 (amended): page registers exactly one GET route whose path is the
\* router's prefix followed by the Path Namer result for the function's name
\* under the router's own separator, "-" when none was given: on a router
\* without prefix, /about-us and /about/us for about_us.
C3_PageRegistersPrefixedRoute ==
    /\ SeparatorIsTheRoutersOwn
    /\ last.op = "page" =>
          /\ PageAppended(prefix \o compute_page_path(PageName, path_separator))
          /\ (PageName = STR_about_us /\ path_separator = "-")
                => NewRoute.path = prefix \o STR_about_dash_us
          /\ (PageName = STR_about_us /\ path_separator = "/")
                => NewRoute.path = prefix \o STR_about_slash_us

C3_Witness ==
    /\ last.op = "page"
    /\ PageName = STR_about_us
    /\ path_separator = "/"
    /\ prefix = STR_api
    /\ Len(routes) = 2
    /\ NewRoute.path = STR_api \o STR_about_slash_us

Indices == 1..Len(routes)

\* Route i is a route of the handler whose .url was called, and the call
\* supplied a value for each of its path parameters and for nothing else.
OwnRouteCalled(i) ==
    /\ routes[i].endpoint = last.func
    /\ DOMAIN last.path_params = routes[i].param_names

\* An earlier route has the name and the parameter names of route i.
Shadowed(i) ==
    \E j \in 1..(i - 1) :
        /\ routes[j].name = routes[i].name
        /\ routes[j].param_names = routes[i].param_names

STR_items_id_5 == <<"/", "i", "t", "e", "m", "s", "/", "5">>

\* C4 as stated: .url called with a value for every declared path parameter of
\* a handler's parameterised route returns the declared path with each
\* placeholder replaced by the value: /items/5 for /items/{id} and id=5.
C4_Original ==
    last.op = "url" =>
        \A i \in Indices :
            (OwnRouteCalled(i) /\ routes[i].param_names # {}) =>
                /\ last.result.ok
                /\ last.result.url = Substituted(DeclaredPath(routes[i]), last.path_params)
                /\ (DeclaredPath(routes[i]) = STR_items_id /\ last.path_params = (STR_id :> 5))
                      => last.result.url = STR_items_id_5

\* C4 (amended): .url called with a value for every declared path parameter of
\* a handler's parameterised route returns the router's prefix followed by the
\* declared path with each placeholder replaced by the value (/items/5 for
\* /items/{id} and id=5 on a router without prefix), provided no route
\* registered earlier has the same name and the same parameter names.
C4_UrlFillsPrefixedPath ==
    last.op = "url" =>
        \A i \in Indices :
            (OwnRouteCalled(i) /\ routes[i].param_names # {} /\ ~Shadowed(i)) =>
                /\ last.result.ok
                /\ last.result.url =
                      prefix \o Substituted(DeclaredPath(routes[i]), last.path_params)
                /\ (DeclaredPath(routes[i]) = STR_items_id /\ last.path_params = (STR_id :> 5))
                      => last.result.url = prefix \o STR_items_id_5

C4_Witness ==
    /\ last.op = "url"
    /\ prefix = <<>>
    /\ \E i \in Indices :
          OwnRouteCalled(i) /\ ~Shadowed(i) /\ DeclaredPath(routes[i]) = STR_items_id
    /\ last.path_params = (STR_id :> 5)
    /\ last.result = [ok |-> TRUE, url |-> STR_items_id_5]

\* C5 as stated: .url called with parameter names that differ from the declared
\* parameter names of the handler's routes fails with "no match", and the
\* routes are as before the call.
C5_Original ==
    last.op = "url" =>
        /\ routes = last.before.routes
        /\ (\A i \in Indices :
               routes[i].endpoint = last.func
                  => DOMAIN last.path_params # routes[i].param_names)
              => ~last.result.ok

\* C5 (amended): .url called with parameter names that differ from the declared
\* parameter names of every route registered under the handler's route name
\* fails with "no match"; and every call of .url leaves the routes as they
\* were.
C5_UrlNoMatchByName ==
    last.op = "url" =>
        /\ routes = last.before.routes
        /\ (\A i \in Indices :
               routes[i].name = funcs[last.func].name
                  => DOMAIN last.path_params # routes[i].param_names)
              => last.result = [ok |-> FALSE, url |-> <<>>]

C5_Witness ==
    /\ last.op = "url"
    /\ DOMAIN last.path_params = {STR_id, STR_q}
    /\ \E i \in Indices : routes[i].endpoint = last.func /\ routes[i].param_names = {STR_id}
    /\ ~last.result.ok
    /\ Len(routes) = 2
    /\ routes = last.before.routes

\* The routes named name whose parameter names are those of params.
NamedRoutes(rs, name, params) ==
    { i \in 1..Len(rs) : rs[i].name = name /\ rs[i].param_names = DOMAIN params }

Earliest(S) == CHOOSE i \in S : \A j \in S : i <= j

\* .url resolves by name: the earliest route of the name and the parameter
\* names supplied, or no match.
ResolvesByName ==
    last.op = "url" =>
        LET named == NamedRoutes(routes, funcs[last.func].name, last.path_params)
        IN  IF named = {} THEN ~last.result.ok
            ELSE /\ last.result.ok
                 /\ last.result.url = Substituted(routes[Earliest(named)].path, last.path_params)

DistinctNames ==
    \A i \in Indices, j \in Indices : i # j => routes[i].name # routes[j].name

\* What .url of a handler decorated before the last registration gave before
\* it and gives after it, for every parameter set.
UrlBefore(f, params) == url_path_for(last.before.routes, last.before.funcs[f].url, params)
UrlAfter(f, params) == url_path_for(routes, last.before.funcs[f].url, params)

Decorated == { f \in DOMAIN funcs : last.before.funcs[f].url # <<>> }

\* C10 as stated: .url resolves by route name, to the earliest route of the
\* name whose parameter names match; it is the handler's own declared path,
\* filled in, when all route names are distinct; and no registration changes
\* the result of the .url of a handler decorated earlier.
C10_Original ==
    /\ ResolvesByName
    /\ (last.op = "url" /\ DistinctNames) =>
          \A i \in Indices :
              OwnRouteCalled(i) =>
                  last.result.url = Substituted(DeclaredPath(routes[i]), last.path_params)
    /\ last.op \in RegistrationOps =>
          \A f \in Decorated, params \in PathParams : UrlAfter(f, params) = UrlBefore(f, params)

\* C10 (amended): .url resolves by route name, to the earliest route of the
\* name whose parameter names match; it is the router's prefix followed by the
\* handler's own declared path, filled in, when all route names are distinct;
\* and no registration changes a URL that the .url of a handler decorated
\* earlier already returns (a call that found no match may find one).
C10_UrlResolvesByName ==
    /\ ResolvesByName
    /\ (last.op = "url" /\ DistinctNames) =>
          \A i \in Indices :
              OwnRouteCalled(i) =>
                  last.result.url =
                      prefix \o Substituted(DeclaredPath(routes[i]), last.path_params)
    /\ last.op \in RegistrationOps =>
          \A f \in Decorated, params \in PathParams :
              UrlBefore(f, params).ok => UrlAfter(f, params) = UrlBefore(f, params)

C10_Witness ==
    /\ last.op = "url"
    /\ last.func = "item_b"
    /\ Len(routes) = 2
    /\ routes[1].endpoint = "item" /\ routes[1].path = STR_api \o STR_items_id
    /\ routes[2].endpoint = "item_b" /\ routes[2].path = STR_api \o STR_users_id
    /\ last.path_params = (STR_id :> 42)
    /\ last.result.url = STR_api \o STR_items \o <<"/", "4", "2">>

\* The last call registered a route for a method and path that a route was
\* already registered for.
RegisteredAgain ==
    /\ last.op \in RegistrationOps
    /\ \E i \in 1..Len(last.before.routes) :
          /\ last.before.routes[i].method = MethodOf(last.op)
          /\ last.before.routes[i].path = prefix \o last.path

C9_DecoratorReturnsSameHandler ==
    /\ last.op \in RegistrationOps =>
          /\ last.ret = last.func
          /\ funcs[last.func].name = last.before.funcs[last.func].name
          /\ funcs[last.func].returns = last.before.funcs[last.func].returns
          /\ funcs[last.func].url = funcs[last.func].name
          /\ \A g \in DOMAIN funcs \ {last.func} : funcs[g] = last.before.funcs[g]
          /\ DOMAIN funcs = DOMAIN last.before.funcs
    /\ last.op \in {"url", "request"} => funcs = last.before.funcs

C9_Witness ==
    /\ last.op = "page"
    /\ last.ret = "about_us"
    /\ last.before.funcs["about_us"].url = <<>>
    /\ funcs["about_us"].url = STR_about_us
    /\ funcs["item"].url = STR_item

\* No route matches the path of the last request, whatever its method.
NoRouteMatches(path) ==
    \A i \in Indices : ~path_regex_match(routes[i].path, path)

\* The default handler the constructor installs and what it answers.
DefaultInstalled ==
    last.op = "init" =>
        default = IF last.default_arg = NoDefault
                  THEN [kind |-> "air404",
                        label |-> IF last.prefix_arg = <<>> THEN STR_router
                                  ELSE last.prefix_arg]
                  ELSE last.default_arg

AnsweredByDefault ==
    IF default.kind = "air404"
    THEN /\ last.response.status = 404
         /\ last.response.by = "air404"
         /\ last.response.label = IF prefix = <<>> THEN STR_router ELSE prefix
    ELSE last.response.by = "custom"

\* C7 as stated: a request whose path matches no registered route is answered
\* 404 with a body naming the router's label, the prefix or else "router"; the
\* 404 handler is installed only when no default was passed, and a default
\* passed is used as it is.
C7_Original ==
    /\ DefaultInstalled
    /\ (last.op = "request" /\ NoRouteMatches(last.path)) => AnsweredByDefault

\* C7 (amended): a request whose path matches no registered route, and (when
\* redirect_slashes is set, as by default, and the path is not "/") whose path
\* with its trailing slash removed or added matches none either, is answered
\* 404 with a body naming the router's label, the prefix or else "router"; the
\* 404 handler is installed only when no default was passed, and a default
\* passed is used as it is.  A request whose path matches a route only after
\* its trailing slash is removed or added is answered with a redirect.
C7_NotFoundUnlessSlashRedirect ==
    /\ DefaultInstalled
    /\ (last.op = "request" /\ NoRouteMatches(last.path)) =>
          IF redirect_slashes /\ last.path # <<"/">> /\ ~NoRouteMatches(toggle_slash(last.path))
          THEN last.response.status = 307 /\ last.response.location = toggle_slash(last.path)
          ELSE AnsweredByDefault

C7_Witness ==
    /\ last.op = "request"
    /\ prefix = STR_api
    /\ last.path = STR_nope
    /\ Len(routes) = 2
    /\ last.response.status = 404
    /\ last.response.label = STR_api

HTML == "text/html; charset=utf-8"

\* The response of the last request is the return value of route i's handler
\* with the given status and media type.
Served(i, status, media) ==
    /\ last.response.by = "route"
    /\ last.response.endpoint = routes[i].endpoint
    /\ last.response.content = funcs[routes[i].endpoint].returns.value
    /\ last.response.status = status
    /\ last.response.media_type = media

\* The response class passed to the decorator is the route's, the HTML class
\* when none was passed; the status code is passed through.
ConfigurationPassedThrough ==
    last.op \in RegistrationOps =>
        /\ NewRoute.response_class = IF last.kw.response_class = "Default"
                                     THEN "AirResponse" ELSE last.kw.response_class
        /\ NewRoute.status_code = last.kw.status_code

\* C8 as stated: a request with the method and to the path a handler was
\* registered with is dispatched to that handler and answered 200 with its
\* return value, rendered as HTML unless a response class was passed, which
\* then renders it.
C8_Original ==
    /\ ConfigurationPassedThrough
    /\ last.op = "request" =>
          \A i \in Indices :
              (routes[i].method = last.method
                  /\ path_regex_match(DeclaredPath(routes[i]), last.path)) =>
                  Served(i, 200, IF routes[i].response_class = "AirResponse" THEN HTML
                                 ELSE "application/json")

\* C8 (amended): a request with the method a handler was registered with, to
\* the router's prefix followed by the path it was registered with, is
\* dispatched to the earliest-registered route of that method matching the
\* path (that handler, when no earlier route matches) and answered with its
\* return value: a Response the handler returns is sent as it is; any other
\* value is rendered as HTML unless a response class was passed, which then
\* renders it, with status 200 unless a status code was passed.
C8_DispatchToEarliestMatch ==
    /\ ConfigurationPassedThrough
    /\ last.op = "request" =>
          \A i \in Indices :
              (/\ routes[i].method = last.method
               /\ path_regex_match(prefix \o DeclaredPath(routes[i]), last.path)
               /\ \A j \in 1..(i - 1) :
                     ~(routes[j].method = last.method
                          /\ path_regex_match(routes[j].path, last.path))) =>
                  IF funcs[routes[i].endpoint].returns.is_response
                  THEN Served(i, 200, "application/json")
                  ELSE Served(i, IF routes[i].status_code = 0 THEN 200
                                 ELSE routes[i].status_code,
                              IF routes[i].response_class = "AirResponse" THEN HTML
                              ELSE "application/json")

C8_Witness ==
    /\ last.op = "request"
    /\ last.method = "GET"
    /\ Len(routes) = 2
    /\ routes[1].method = "POST"
    /\ routes[2].method = "GET" /\ routes[2].endpoint = "about_us"
    /\ routes[2].response_class = "AirResponse" /\ routes[2].status_code = 0
    /\ last.response =
          [NoResponse EXCEPT !.status = 200, !.by = "route", !.endpoint = "about_us",
                             !.content = "<h1>Hello</h1>", !.media_type = HTML]

====
